---- MODULE Spec2Model ----
(***************************************************************************)
(* Model of the retrieval-and-ranking engine of MovieRecommender:          *)
(* RecommendationService (app/services/recommendation_service.py) and the  *)
(* two Gemini collaborators it calls (app/services/gemini_service.py).     *)
(*                                                                         *)
(* Strings are sequences of one-character strings; a CJK character is one  *)
(* element named by its code point ("U6050").  Scores are exact rationals  *)
(* scaled by ScoreScale.                                                   *)
(***************************************************************************)
EXTENDS Integers, Sequences, FiniteSets

VARIABLES movies, model, pc, user_text, top_k, preferences, path,
          eligible, candidates, rerank, ranked_indices, reranked_head, result, outcome,
          doc_matrix, quicksort_stable, top_idx, prev,
          builds, now, user_submission_log, pending_file, appeal_file, passed, calls,
          reply, stored, ops, enhanced_query, approved_file, handling

\* the service and the request it is serving
serviceVars == <<movies, model, pc, user_text, top_k, preferences, path,
                 eligible, candidates, rerank, ranked_indices, reranked_head, result,
                 outcome>>

\* the fitted index, the tie order of the build's quicksort, the pool of the request,
\* the remembered earlier call and the text the query enhancer returned
retrieverVars == <<doc_matrix, quicksort_stable, top_idx, prev, enhanced_query>>

\* the number of catalog loads of the process, the clock, the files of
\* MovieSubmissionService, the calls of validate_and_submit that passed the
\* frequency check, the number of calls and the last reply
submissionVars == <<builds, now, user_submission_log, pending_file, appeal_file,
                    approved_file, passed, calls, reply>>

\* the files of UserPreferenceService and the operations running on them
preferenceVars == <<stored, ops>>

\* the message handle_text_message is working on, with its locals
handlerVars == <<handling>>

storeVars == <<submissionVars, preferenceVars, handlerVars>>

vars == <<serviceVars, retrieverVars, submissionVars, preferenceVars, handlerVars>>

(***************************************************************************)
(* Bounds of the model.                                                    *)
(***************************************************************************)
\* catalogs are the first 1..MaxCatalog rows of CatalogRows
MaxCatalog == 4
\* top_k ranges over -MaxTopK..MaxTopK
MaxTopK == 2
\* length of the ranked_indices list of a reranker response
MaxRanked == 3
\* the clock of the submission service runs for MaxTicks steps
MaxTicks == 2
\* the number of calls of validate_and_submit
MaxCalls == 4
\* the largest catalog of the specification of the reranked slice
MaxPool == 12

Min(a, b) == IF a <= b THEN a ELSE b
Max(a, b) == IF a >= b THEN a ELSE b

(***************************************************************************)
(* Python values and string operations.                                    *)
(***************************************************************************)
\* None, for the integer-valued fields (year)
None == -1

UpperCase == <<"A","B","C","D","E","F","G","H","I","J","K","L","M",
               "N","O","P","Q","R","S","T","U","V","W","X","Y","Z">>
LowerCase == <<"a","b","c","d","e","f","g","h","i","j","k","l","m",
               "n","o","p","q","r","s","t","u","v","w","x","y","z">>
Digits == <<"0","1","2","3","4","5","6","7","8","9">>

\* str.lower() on one character
lower_char(c) ==
    IF \E i \in 1..Len(UpperCase) : UpperCase[i] = c
    THEN LowerCase[CHOOSE i \in 1..Len(UpperCase) : UpperCase[i] = c]
    ELSE c

\* str.lower()
lower(s) == [i \in 1..Len(s) |-> lower_char(s[i])]

\* Python's `sub in s` on strings
contains(sub, s) ==
    \E i \in 0..(Len(s) - Len(sub)) : SubSeq(s, i + 1, i + Len(sub)) = sub

\* str.replace(old, new) for a one-character old and new
replace_char(s, old, new) == [i \in 1..Len(s) |-> IF s[i] = old THEN new ELSE s[i]]

\* str.replace(old, "") for a one-character old
remove_char(s, old) == SelectSeq(s, LAMBDA c : c # old)

IsDigit(c) == \E i \in 1..Len(Digits) : Digits[i] = c
DigitValue(c) == (CHOOSE i \in 1..Len(Digits) : Digits[i] = c) - 1

\* int() of a string of four digits
Int4(s) == 1000 * DigitValue(s[1]) + 100 * DigitValue(s[2])
           + 10 * DigitValue(s[3]) + DigitValue(s[4])

\* seq[:k] with Python's meaning of a negative k (also DataFrame.head(k))
PySlice(seq, k) ==
    IF k >= 0 THEN SubSeq(seq, 1, Min(k, Len(seq)))
    ELSE SubSeq(seq, 1, Max(Len(seq) + k, 0))

\* seq[k:] for k >= 0
PyTail(seq, k) == SubSeq(seq, Min(k, Len(seq)) + 1, Len(seq))

\* bool(year): None and 0 are falsy
Truthy(y) == y # None /\ y # 0

(***************************************************************************)
(* The catalog source (movies.csv joined with the ratings aggregate).      *)
(* avg_rating is in tenths of a star; rating_count is of the form 10^k - 1 *)
(* so that log10(rating_count + 1) is an integer.                          *)
(***************************************************************************)
CatalogRows == <<
    [movieId |-> 1,
     title |-> <<"T","o","y"," ","S","t","o","r","y"," ","(","1","9","9","5",")">>,
     genres |-> <<"C","h","i","l","d","r","e","n","|","C","o","m","e","d","y">>,
     avg_rating |-> 42, rating_count |-> 999],
    [movieId |-> 2,
     title |-> <<"T","h","e"," ","M","a","t","r","i","x"," ","(","1","9","9","9",")">>,
     genres |-> <<"A","c","t","i","o","n","|","S","c","i","-","F","i">>,
     avg_rating |-> 45, rating_count |-> 999],
    [movieId |-> 3,
     title |-> <<"V","a","m","p","i","r","e"," ","(","1","9","9","5",")">>,
     genres |-> <<"C","o","m","e","d","y","|","H","o","r","r","o","r">>,
     avg_rating |-> 42, rating_count |-> 999],
    [movieId |-> 4,
     title |-> <<"L","o","s","t"," ","(","2","0","0","1",")">>,
     genres |-> <<>>,
     avg_rating |-> 50, rating_count |-> 9],
    [movieId |-> 5,
     title |-> <<"U","n","t","i","t","l","e","d">>,
     genres |-> <<"W","a","r">>,
     avg_rating |-> 0, rating_count |-> 0],
    [movieId |-> 6,
     title |-> <<"Z","e","r","o"," ","(","0","0","0","0",")">>,
     genres |-> <<"D","r","a","m","a">>,
     avg_rating |-> 30, rating_count |-> 99] >>

\* movies["title"].str.extract(r'\((\d{4})\)'): the first "(dddd)" of the title
ParseYear(title) ==
    LET hit(i) == /\ title[i] = "("
                  /\ \A j \in 1..4 : IsDigit(title[i + j])
                  /\ title[i + 5] = ")"
        starts == {i \in 1..(Len(title) - 5) : hit(i)}
    IN  IF starts = {} THEN None
        ELSE LET i == CHOOSE i \in starts : \A j \in starts : i <= j
             IN  Int4(SubSeq(title, i + 1, i + 4))

\* _load_and_build: the catalog frame of the first n rows of the source
load_and_build(n) ==
    [i \in 1..n |->
        [movieId |-> CatalogRows[i].movieId,
         title |-> CatalogRows[i].title,
         year |-> ParseYear(CatalogRows[i].title),
         genres |-> replace_char(CatalogRows[i].genres, "|", " "),
         avg_rating |-> CatalogRows[i].avg_rating,
         rating_count |-> CatalogRows[i].rating_count]]

(***************************************************************************)
(* Quality Scorer.  A score s of the code is the integer s * ScoreScale.   *)
(***************************************************************************)
ScoreScale == 750

\* np.log10 of a power of ten
RECURSIVE Log10(_)
Log10(n) == IF n < 10 THEN 0 ELSE 1 + Log10(n \div 10)

\* np.log10(rating_count + 1) / np.log10(1000)
log_count(rating_count) == (ScoreScale * Log10(rating_count + 1)) \div Log10(1000)

\* lines 295-312: the three scores of one candidate
score_candidate(c) ==
    LET rating_score == IF c.avg_rating > 0 THEN (ScoreScale * c.avg_rating) \div 50 ELSE 0
        count_score == IF c.rating_count > 0
                       THEN Min(ScoreScale, log_count(c.rating_count))
                       ELSE 0
        quality_score == (6 * rating_score + 4 * count_score) \div 10
    IN  [movieId |-> c.movieId, title |-> c.title, genres |-> c.genres,
         avg_rating |-> c.avg_rating, rating_count |-> c.rating_count,
         quality_score |-> quality_score, rating_score |-> rating_score,
         count_score |-> count_score]

\* one step of a stable descending sort: c goes after every item that is not below it
InsertByQuality(sorted, c) ==
    LET k == Cardinality({i \in 1..Len(sorted) :
                             sorted[i].quality_score >= c.quality_score})
    IN  SubSeq(sorted, 1, k) \o <<c>> \o SubSeq(sorted, k + 1, Len(sorted))

\* list.sort(key=quality_score, reverse=True): descending, equal items keep their order
RECURSIVE SortByQuality(_)
SortByQuality(s) ==
    IF s = <<>> THEN <<>>
    ELSE InsertByQuality(SortByQuality(SubSeq(s, 1, Len(s) - 1)), s[Len(s)])

\* argsort whose order of equal keys changes once a call has been remembered
argsort_by_history(keys) ==
    LET before(j, i) == \/ keys[j] < keys[i]
                        \/ keys[j] = keys[i] /\ (IF prev.set THEN j < i ELSE j > i)
        rank(i) == 1 + Cardinality({j \in 1..Len(keys) : before(j, i)})
    IN  [r \in 1..Len(keys) |-> CHOOSE i \in 1..Len(keys) : rank(i) = r]

\* ndarray.argsort() of the default kind: the positions in ascending order of their
\* keys.  numpy's quicksort leaves equal keys in input order only where it falls back
\* to insertion sort (fewer than 16 elements, no SIMD kernel); the other tie order of
\* the model is the reverse one.
argsort(keys) ==
    LET before(j, i) == \/ keys[j] < keys[i]
                        \/ keys[j] = keys[i] /\ (IF quicksort_stable THEN j < i ELSE j > i)
        rank(i) == 1 + Cardinality({j \in 1..Len(keys) : before(j, i)})
    IN  [r \in 1..Len(keys) |-> CHOOSE i \in 1..Len(keys) : rank(i) = r]

\* seq[::-1]
Reverse(seq) == [i \in 1..Len(seq) |-> seq[Len(seq) + 1 - i]]

\* DataFrame.sort_values("quality_score", ascending=False): pandas reverses the
\* column, takes argsort() of it and reverses the positions it gets
sort_values(scored) ==
    LET reversed == Reverse(scored)
        indexer == argsort([i \in 1..Len(reversed) |-> reversed[i].quality_score])
    IN  Reverse([i \in 1..Len(indexer) |-> reversed[indexer[i]]])

\* _rank_candidates_by_quality on a non-empty list (line 317 raises on an empty one)
rank_candidates_by_quality(cands) ==
    SortByQuality([i \in 1..Len(cands) |-> score_candidate(cands[i])])

(***************************************************************************)
(* Exclusion Filter.                                                       *)
(***************************************************************************)
genre_mapping == <<
       <<<<"U5152","U7AE5">>, <<"C","h","i","l","d","r","e","n">>>>,
       <<<<"U6050","U6016">>, <<"H","o","r","r","o","r">>>>,
       <<<<"U9A5A","U609A">>, <<"T","h","r","i","l","l","e","r">>>>,
       <<<<"U8840","U8165">>, <<"C","r","i","m","e">>>>,
       <<<<"U61F8","U7591">>, <<"M","y","s","t","e","r","y">>>>,
       <<<<"U52D5","U4F5C">>, <<"A","c","t","i","o","n">>>>,
       <<<<"U5192","U96AA">>, <<"A","d","v","e","n","t","u","r","e">>>>,
       <<<<"U52D5","U756B">>, <<"A","n","i","m","a","t","i","o","n">>>>,
       <<<<"U559C","U5287">>, <<"C","o","m","e","d","y">>>>,
       <<<<"U72AF","U7F6A">>, <<"C","r","i","m","e">>>>,
       <<<<"U5287","U60C5">>, <<"D","r","a","m","a">>>>,
       <<<<"U5947","U5E7B">>, <<"F","a","n","t","a","s","y">>>>,
       <<<<"U97F3","U6A02">>, <<"M","u","s","i","c","a","l">>>>,
       <<<<"U6D6A","U6F2B">>, <<"R","o","m","a","n","c","e">>>>,
       <<<<"U79D1","U5E7B">>, <<"S","c","i","-","F","i">>>>,
       <<<<"U6230","U722D">>, <<"W","a","r">>>>,
       <<<<"U897F","U90E8">>, <<"W","e","s","t","e","r","n">>>> >>

\* genre_mapping.get(genre, genre)
genre_mapping_get(genre) ==
    IF \E i \in 1..Len(genre_mapping) : genre_mapping[i][1] = genre
    THEN genre_mapping[CHOOSE i \in 1..Len(genre_mapping) : genre_mapping[i][1] = genre][2]
    ELSE genre

\* should_exclude comparing the exclude list without lower()
should_exclude_case_sensitive(candidate, exclude_genres_en) ==
    LET movie_genres == lower(candidate.genres)
    IN  \E i \in 1..Len(exclude_genres_en) :
            \/ contains(exclude_genres_en[i], movie_genres)
            \/ contains(remove_char(remove_char(movie_genres, " "), "|"),
                        exclude_genres_en[i])

\* should_exclude with the first of its two tests only
should_exclude_one_direction(candidate, exclude_genres_en) ==
    \E i \in 1..Len(exclude_genres_en) :
        contains(lower(exclude_genres_en[i]), lower(candidate.genres))

\* lines 273-280: the test of one candidate against the translated exclude list
should_exclude(candidate, exclude_genres_en) ==
    LET movie_genres == lower(candidate.genres)
    IN  \E i \in 1..Len(exclude_genres_en) :
            \/ contains(lower(exclude_genres_en[i]), movie_genres)
            \/ contains(remove_char(remove_char(movie_genres, " "), "|"),
                        lower(exclude_genres_en[i]))

\* _filter_excluded_genres
filter_excluded_genres(cands, prefs) ==
    IF prefs.exclude_genres = <<>> THEN cands
    ELSE LET exclude_genres_en ==
                 [i \in 1..Len(prefs.exclude_genres) |->
                     genre_mapping_get(prefs.exclude_genres[i])]
         IN  SelectSeq(cands, LAMBDA c : ~should_exclude(c, exclude_genres_en))

(***************************************************************************)
(* Year Fast-Path.                                                         *)
(***************************************************************************)
\* lines 336-339: the quality score of a catalog row
year_quality_score(m) ==
    LET rating_score == (ScoreScale * m.avg_rating) \div 50
        count_score == Max(0, Min(ScoreScale, log_count(m.rating_count)))
    IN  (6 * rating_score + 4 * count_score) \div 10

\* lines 345-353: the dictionary built from a row
year_candidate(m) ==
    [movieId |-> m.movieId, title |-> m.title, genres |-> m.genres,
     avg_rating |-> m.avg_rating, rating_count |-> m.rating_count]

\* has_enough_ratings with a floor of one rating
has_enough_ratings_one(m) == m.rating_count >= 1

\* line 333: the evidence floor
has_enough_ratings(m) == m.rating_count >= 10

\* self.movies after a year query that writes its quality_score column to the rows
\* it selected and not to a copy of them
movies_after_year_query_in_place(frame, year) ==
    [i \in 1..Len(frame) |->
        IF frame[i].year = year
        THEN [movieId |-> frame[i].movieId, title |-> frame[i].title,
              year |-> frame[i].year, genres |-> frame[i].genres,
              avg_rating |-> frame[i].avg_rating,
              rating_count |-> frame[i].rating_count,
              quality_score |-> year_quality_score(frame[i])]
        ELSE frame[i]]

\* self.movies after _get_movies_by_year: line 326 takes a copy of the selected rows
\* and lines 333-339 write their columns to the copy
movies_after_year_query(frame, year) == frame

\* get_movies_by_year without the early return of lines 328-330
get_movies_by_year_unguarded(frame, year, k) ==
    LET year_movies == SelectSeq(frame, LAMBDA m : m.year = year)
        rated == SelectSeq(year_movies, has_enough_ratings)
        scored == [i \in 1..Len(rated) |->
                      [row |-> rated[i], quality_score |-> year_quality_score(rated[i])]]
        head == PySlice(sort_values(scored), k)
    IN  IF rated = <<>>
        THEN [raised |-> TRUE, value |-> <<>>, eligible |-> 0]
        ELSE [raised |-> FALSE,
              value |-> [i \in 1..Len(head) |-> year_candidate(head[i].row)],
              eligible |-> Len(rated)]

\* _get_movies_by_year(year, k) on catalog frame: the value returned, whether it
\* raised (line 355 indexes the first row of an empty frame), and the number of
\* rows that passed both filters
get_movies_by_year(frame, year, k) ==
    LET year_movies == SelectSeq(frame, LAMBDA m : m.year = year)
        rated == SelectSeq(year_movies, has_enough_ratings)
        scored == [i \in 1..Len(rated) |->
                      [row |-> rated[i], quality_score |-> year_quality_score(rated[i])]]
        sorted == sort_values(scored)
        head == PySlice(sorted, k)
    IN  IF year_movies = <<>>
        THEN [raised |-> FALSE, value |-> <<>>, eligible |-> 0]
        ELSE IF rated = <<>>
        THEN [raised |-> TRUE, value |-> <<>>, eligible |-> 0]
        ELSE [raised |-> FALSE,
              value |-> [i \in 1..Len(head) |-> year_candidate(head[i].row)],
              eligible |-> Len(rated)]

(***************************************************************************)
(* Reranker (GeminiService.rerank_recommendations).                        *)
(***************************************************************************)
\* line 239: the bounds check of one index
index_in_range(idx, cands) == 0 <= idx /\ idx < Len(cands)

\* lines 240-241: the copy of a candidate with its reason
with_reason(c) ==
    [movieId |-> c.movieId, title |-> c.title, genres |-> c.genres,
     avg_rating |-> c.avg_rating, rating_count |-> c.rating_count,
     quality_score |-> c.quality_score, rating_score |-> c.rating_score,
     count_score |-> c.count_score, reason |-> "default"]

\* lines 237-245: the list built from an accepted response
RECURSIVE reranked(_, _)
reranked(indices, cands) ==
    IF indices = <<>> THEN <<>>
    ELSE LET rest == reranked(Tail(indices), cands)
         IN  IF index_in_range(Head(indices), cands)
             THEN <<with_reason(cands[Head(indices) + 1])>> \o rest
             ELSE rest

\* line 233: list(range(len(candidates))), the default of a missing ranked_indices
default_indices(cands) == [i \in 1..Len(cands) |-> i - 1]

(***************************************************************************)
(* Preference Extractor (GeminiService.extract_preferences).  Of the       *)
(* preference record the model keeps the fields the pipeline branches on:  *)
(* year and exclude_genres.                                                *)
(***************************************************************************)
IsWordChar(c) ==
    \/ IsDigit(c)
    \/ c = "_"
    \/ \E i \in 1..Len(UpperCase) : UpperCase[i] = c \/ LowerCase[i] = c

\* re.search(r'\b(19|20)\d{2}\b', user_message) matching at position i
year_match(text, i) ==
    /\ i + 3 <= Len(text)
    /\ \/ text[i] = "1" /\ text[i + 1] = "9"
       \/ text[i] = "2" /\ text[i + 1] = "0"
    /\ IsDigit(text[i + 2])
    /\ IsDigit(text[i + 3])
    /\ (i = 1 \/ ~IsWordChar(text[i - 1]))
    /\ (i + 3 = Len(text) \/ ~IsWordChar(text[i + 4]))

\* _fallback_preferences: exclude_genres stays empty, year is the first match
fallback_preferences(text) ==
    LET starts == {i \in 1..Len(text) : year_match(text, i)}
    IN  [year |-> IF starts = {} THEN None
                  ELSE LET i == CHOOSE i \in starts : \A j \in starts : i <= j
                       IN  Int4(SubSeq(text, i, i + 3)),
         exclude_genres |-> <<>>]

\* the user messages of the model: "", "scary", "funny 1995"
Messages == { <<>>,
              <<"s","c","a","r","y">>,
              <<"f","u","n","n","y"," ","1","9","9","5">> }

\* the years a parsed response of the extractor names
ResponseYears == {None, 0, 1995, 2001, 2010}

\* the exclude_genres lists a parsed response names:
\* [], ["Horror"], ["恐怖"], ["comedy", "Warfare"]
ResponseExcludes == { <<>>,
                      << <<"H","o","r","r","o","r">> >>,
                      << <<"U6050","U6016">> >>,
                      << <<"c","o","m","e","d","y">>, <<"W","a","r","f","a","r","e">> >> }

\* json.loads("[]"): parseable JSON that is no object
JsonEmptyList == <<>>

\* a value with the fields of the preference record the model keeps
IsPreferenceRecord(p) == DOMAIN p = {"year", "exclude_genres"}

\* json.loads(result_text) when it is a preference object (line 94)
PreferenceResponses ==
    {[year |-> y, exclude_genres |-> e] : y \in ResponseYears, e \in ResponseExcludes}

(***************************************************************************)
(* recommend_by_text.                                                      *)
(***************************************************************************)
\* line 114: the size of the retrieved pool
CandidatePool == 20
\* line 136: the size of the slice given to the reranker
RerankSlice == 10

\* the orders of n items
Orders(n) ==
    {p \in [1..n -> 1..n] : \A i, j \in 1..n : p[i] = p[j] => i = j}

\* lines 110-115: sims.argsort()[::-1][:candidate_count].  The order is that of the
\* query's similarities, and every order of the catalog is the order of some query.
TopIdx(frame) ==
    {SubSeq(p, 1, Min(CandidatePool, Len(frame))) : p \in Orders(Len(frame))}

\* lines 117-126: the candidate dictionaries of the pool
retrieve(frame, idx) ==
    [i \in 1..Len(idx) |->
        [movieId |-> frame[idx[i]].movieId,
         title |-> frame[idx[i]].title,
         genres |-> frame[idx[i]].genres,
         avg_rating |-> frame[idx[i]].avg_rating,
         rating_count |-> frame[idx[i]].rating_count]]

\* rerank_recommendations returning the list built so far when the call fails
rerank_recommendations_partial(cands, available, kind, indices) ==
    IF ~available \/ cands = <<>> THEN cands
    ELSE reranked(indices, cands)

\* rerank_recommendations(candidates, ...): what the call returns for the given
\* outcome of the Gemini call
rerank_recommendations(cands, available, kind, indices) ==
    IF ~available \/ cands = <<>> THEN cands
    ELSE IF kind = "accepted" THEN reranked(indices, cands)
    ELSE cands

\* the tail taken from where the returned head ends
assemble_after_head(head, cands, k) == PySlice(head \o PyTail(cands, Len(head)), k)

\* lines 135-140: head + candidates[10:], cut to top_k
assemble(head, cands, k) == PySlice(head \o PyTail(cands, RerankSlice), k)

NoPreferences == [year |-> None, exclude_genres |-> <<>>]

\* the index of a specification that leaves the similarities of a query open
NoIndex == <<>>

\* no earlier call is remembered
NoCall == [set |-> FALSE]

Finish(p, e, c, r, h, res, out) ==
    /\ path' = p
    /\ eligible' = e
    /\ candidates' = c
    /\ rerank' = r
    /\ reranked_head' = h
    /\ result' = res
    /\ outcome' = out
    /\ pc' = "done"

\* the year fast path with the Exclusion Filter applied to its candidates
YearPathFiltered(prefs, k) ==
    LET r == get_movies_by_year(movies, prefs.year, k * 2)
        kept == filter_excluded_genres(r.value, prefs)
    IN  /\ movies' = movies_after_year_query(movies, prefs.year)
        /\ IF r.raised
           THEN Finish("year", 0, <<>>, "none", <<>>, <<>>, "IndexError")
           ELSE Finish("year", r.eligible, kept, "none", <<>>,
                       PySlice(kept, k), "returned")

\* lines 102-104: the year fast path
YearPath(prefs, k) ==
    LET r == get_movies_by_year(movies, prefs.year, k * 2)
    IN  /\ movies' = movies_after_year_query(movies, prefs.year)
        /\ IF r.raised
           THEN Finish("year", 0, <<>>, "none", <<>>, <<>>, "IndexError")
           ELSE Finish("year", r.eligible, r.value, "none", <<>>,
                       PySlice(r.value, k), "returned")

\* lines 117-137: from the positions of the pool to the reranker call
RetrievalPath(prefs, k, idx) ==
    LET filtered == filter_excluded_genres(retrieve(movies, idx), prefs)
        ranked == rank_candidates_by_quality(filtered)
        unranked == rerank_recommendations(PySlice(ranked, RerankSlice),
                                           FALSE, "none", <<>>)
    IN  /\ UNCHANGED movies
        /\ IF filtered = <<>>
           THEN Finish("retrieval", 0, <<>>, "none", <<>>, <<>>, "IndexError")
           ELSE IF ~model
           THEN Finish("retrieval", Len(filtered), ranked, "disabled", unranked,
                       assemble(unranked, ranked, k), "returned")
           ELSE /\ path' = "retrieval"
                /\ eligible' = Len(filtered)
                /\ candidates' = ranked
                /\ rerank' = "pending"
                /\ reranked_head' = <<>>
                /\ result' = <<>>
                /\ outcome' = "running"
                /\ pc' = "rerank"

\* lines 99-137, from the preference record to the reranker call, for any query
Pipeline(prefs, k) ==
    /\ preferences' = prefs
    /\ ranked_indices' = <<>>
    /\ IF Truthy(prefs.year)
       THEN YearPath(prefs, k)
       ELSE \E idx \in TopIdx(movies) : RetrievalPath(prefs, k, idx)

\* line 93: an empty text returns [] at once
RecommendEmptyText(k) ==
    /\ pc = "idle"
    /\ user_text' = <<>>
    /\ top_k' = k
    /\ UNCHANGED <<preferences, ranked_indices>>
    /\ Finish("none", 0, <<>>, "none", <<>>, <<>>, "returned")
    /\ UNCHANGED <<movies, model, retrieverVars, storeVars>>

\* line 97 with self.model unset: extract_preferences is the local fallback
RecommendWithoutGemini(text, k) ==
    /\ pc = "idle"
    /\ ~model
    /\ text # <<>>
    /\ user_text' = text
    /\ top_k' = k
    /\ Pipeline(fallback_preferences(text), k)
    /\ UNCHANGED <<model, retrieverVars, storeVars>>

\* line 97 with a model: the request waits for Gemini's answer
RecommendCallsGemini(text, k) ==
    /\ pc = "idle"
    /\ model
    /\ text # <<>>
    /\ user_text' = text
    /\ top_k' = k
    /\ pc' = "extract"
    /\ outcome' = "running"
    /\ UNCHANGED <<movies, model, preferences, path, eligible, candidates,
                   rerank, ranked_indices, reranked_head, result, retrieverVars, storeVars>>

\* gemini_service.py lines 97-103: the call raised, or its text is not JSON
ExtractFails ==
    /\ pc = "extract"
    /\ Pipeline(fallback_preferences(user_text), top_k)
    /\ UNCHANGED <<model, user_text, top_k, retrieverVars, storeVars>>

\* gemini_service.py lines 94-96: the parsed object is returned as it is
ExtractReturns(prefs) ==
    /\ pc = "extract"
    /\ Pipeline(prefs, top_k)
    /\ UNCHANGED <<model, user_text, top_k, retrieverVars, storeVars>>

\* lines 94-96 with JSON that is no object: extract_preferences returns the parsed
\* value, and preferences.get (recommendation_service.py line 100) raises
ExtractReturnsNoObject ==
    /\ pc = "extract"
    /\ preferences' = JsonEmptyList
    /\ Finish("none", 0, <<>>, "none", <<>>, <<>>, "AttributeError")
    /\ UNCHANGED <<movies, model, user_text, top_k, ranked_indices, retrieverVars, storeVars>>

\* the reranker's answer, then lines 137-140
RerankReturns(kind, indices) ==
    /\ pc = "rerank"
    /\ rerank' = kind
    /\ ranked_indices' = indices
    /\ reranked_head' = rerank_recommendations(PySlice(candidates, RerankSlice),
                                      model, kind, indices)
    /\ result' = assemble(reranked_head', candidates, top_k)
    /\ outcome' = "returned"
    /\ pc' = "done"
    /\ UNCHANGED <<movies, model, user_text, top_k, preferences, path,
                   eligible, candidates, retrieverVars, storeVars>>

\* gemini_service.py lines 247-253: the call raised, the text is not JSON, or the
\* JSON is no object (result.get raises)
RerankFails(kind) == RerankReturns(kind, <<>>)

\* the index lists of a parsed response: up to MaxRanked indices, each in range
\* or the first one past the slice
RankedIndexLists(n) ==
    UNION {[1..len -> 0..n] : len \in 0..MaxRanked}

\* gemini_service.py lines 232-245: a parsed response with ranked_indices
RerankAccepted(indices) == RerankReturns("accepted", indices)

\* line 233: a parsed response without ranked_indices
RerankAcceptedDefault ==
    RerankReturns("accepted", default_indices(PySlice(candidates, RerankSlice)))

\* the locals of the request are gone when it has returned
ResetRequest ==
    /\ pc' = "idle"
    /\ user_text' = <<>>
    /\ top_k' = 0
    /\ preferences' = NoPreferences
    /\ path' = "none"
    /\ eligible' = 0
    /\ candidates' = <<>>
    /\ rerank' = "none"
    /\ ranked_indices' = <<>>
    /\ reranked_head' = <<>>
    /\ result' = <<>>
    /\ outcome' = "idle"

\* the caller has the result; the service is ready for the next request
Return ==
    /\ pc = "done"
    /\ ResetRequest
    /\ UNCHANGED <<movies, model, retrieverVars, storeVars>>

\* the users of the model
Users == {"u1", "u2"}

\* _default_preferences (user_preference_service.py lines 205-217), without its
\* two timestamps
default_preferences ==
    [user_id |-> "", favorite_genres |-> <<>>, excluded_genres |-> <<>>,
     favorite_moods |-> {}, query_history |-> <<>>, interactions |-> <<>>,
     genre_preference_strength |-> <<>>]

\* no preference file exists yet
NoFile == [exists |-> FALSE]

\* no operation runs on the preference files
NoOperation == [pc |-> "idle"]

\* handle_text_message is not running
NoMessage == [pc |-> "idle"]

\* after MessageHandler.__init__ (message_handler.py lines 24-28): one
\* RecommendationService has been built, the storage directories are empty
NoStores ==
    /\ builds = 1
    /\ now = 0
    /\ user_submission_log = [u \in Users |-> <<>>]
    /\ pending_file = <<>>
    /\ appeal_file = <<>>
    /\ approved_file = <<>>
    /\ passed = [u \in Users |-> <<>>]
    /\ calls = 0
    /\ reply = "none"
    /\ stored = [u \in Users |-> NoFile]
    /\ ops = <<NoOperation, NoOperation>>
    /\ handling = NoMessage

Init ==
    /\ \E n \in 1..Min(MaxCatalog, Len(CatalogRows)) : movies = load_and_build(n)
    /\ model \in BOOLEAN
    /\ pc = "idle"
    /\ user_text = <<>>
    /\ top_k = 0
    /\ preferences = NoPreferences
    /\ path = "none"
    /\ eligible = 0
    /\ candidates = <<>>
    /\ rerank = "none"
    /\ ranked_indices = <<>>
    /\ reranked_head = <<>>
    /\ result = <<>>
    /\ outcome = "idle"
    /\ doc_matrix = NoIndex
    /\ quicksort_stable = TRUE
    /\ top_idx = <<>>
    /\ enhanced_query = <<>>
    /\ prev = NoCall
    /\ NoStores

TopKs == (0 - MaxTopK)..MaxTopK

Next ==
    \/ \E k \in TopKs : RecommendEmptyText(k)
    \/ \E text \in Messages, k \in TopKs : RecommendWithoutGemini(text, k)
    \/ \E text \in Messages, k \in TopKs : RecommendCallsGemini(text, k)
    \/ ExtractFails
    \/ \E prefs \in PreferenceResponses : ExtractReturns(prefs)
    \/ ExtractReturnsNoObject
    \/ \E kind \in {"exception", "unparseable", "no_object"} : RerankFails(kind)
    \/ \E indices \in RankedIndexLists(Len(PySlice(candidates, RerankSlice))) :
           RerankAccepted(indices)
    \/ RerankAcceptedDefault
    \/ Return

Spec == Init /\ [][Next]_vars

\* The service runs its own code to the end: a finished request is handed to its
\* caller.  Nothing makes Gemini answer: generate_content is called without a
\* timeout (gemini_service.py lines 81 and 220), so its answers are not fair.
FairSpec == Init /\ [][Next]_vars /\ WF_vars(Return)

(***************************************************************************)
(* The service without Gemini (self.model is None: no reranking, the       *)
(* fallback extractor), with its fitted index explicit.  The preference    *)
(* fields the query enhancer reads are outside the model's record, so the  *)
(* enhanced query of a request is its user_text.                           *)
(***************************************************************************)
\* the texts a service without Gemini retrieves for: the fallback finds no year
Queries == {m \in Messages : m # <<>> /\ ~Truthy(fallback_preferences(m).year)}

\* the values of a cosine similarity in the model, in halves
SimLevels == {0, 1, 2}

\* lines 76-77, 89: the index fitted on a catalog of n rows, as the similarity of
\* each row to each query.  Every table is the index of some corpus.
Indexes(n) == [Queries -> [1..n -> SimLevels]]

\* lines 110-112: cosine_similarity(query_vec, self.doc_matrix)[0]
cosine_similarity(matrix, text) == matrix[text]

\* line 115: sims.argsort()[::-1][:candidate_count]
top_idx_of(sims, count) == PySlice(Reverse(argsort(sims)), count)

\* str.strip()
RECURSIVE strip(_)
strip(s) ==
    IF s = <<>> THEN s
    ELSE IF Head(s) = " " THEN strip(Tail(s))
    ELSE IF s[Len(s)] = " " THEN strip(SubSeq(s, 1, Len(s) - 1))
    ELSE s

\* the length of the match of \s*\([0-9]{4}\) at the head of s, 0 when there is none
year_suffix_length(s) ==
    LET w == CHOOSE w \in 0..Len(s) :
                 /\ \A i \in 1..w : s[i] = " "
                 /\ (w = Len(s) \/ s[w + 1] # " ")
    IN  IF /\ w + 6 <= Len(s)
           /\ s[w + 1] = "("
           /\ \A j \in 2..5 : IsDigit(s[w + j])
           /\ s[w + 6] = ")"
        THEN w + 6
        ELSE 0

\* re.sub(r'\s*\([0-9]{4}\)', '', s)
RECURSIVE remove_year(_)
remove_year(s) ==
    IF s = <<>> THEN s
    ELSE IF year_suffix_length(s) > 0
    THEN remove_year(SubSeq(s, year_suffix_length(s) + 1, Len(s)))
    ELSE <<Head(s)>> \o remove_year(Tail(s))

\* lines 157-163, 179-185, 196-202: the dictionary of a matched row
exact_match(m) ==
    [movieId |-> m.movieId, title |-> m.title, genres |-> m.genres,
     year |-> m.year, avg_rating |-> m.avg_rating]

\* lines 169-172: the title_no_year column of the copy
title_no_year(m) == strip(lower(remove_year(m.title)))

\* search_exact_movie(search_term) on the frame: the list of the dictionary it
\* returns, the empty list for None
search_exact_movie(frame, search_term) ==
    LET term == lower(strip(search_term))
        term_no_year == strip(remove_year(term))
        rows == 1..Len(frame)
        first(hits) == CHOOSE i \in hits : \A j \in hits : i <= j
        exact == {i \in rows : lower(frame[i].title) = term}
        matches == {i \in rows : title_no_year(frame[i]) = term_no_year}
        partial == {i \in rows : contains(term_no_year, title_no_year(frame[i]))}
        shortest == {i \in partial : \A j \in partial :
                        Len(title_no_year(frame[i])) <= Len(title_no_year(frame[j]))}
    IN  IF search_term = <<>> THEN <<>>
        ELSE IF exact # {} THEN <<exact_match(frame[first(exact)])>>
        ELSE IF matches # {} THEN <<exact_match(frame[first(matches)])>>
        ELSE IF partial # {} THEN <<exact_match(frame[first(shortest)])>>
        ELSE <<>>

\* lines 221-231: the candidate of a row, with its similarity
similar_candidate(m, sim) ==
    [movieId |-> m.movieId, title |-> m.title, genres |-> m.genres, year |-> m.year,
     avg_rating |-> m.avg_rating, rating_count |-> m.rating_count, similarity |-> sim]

\* line 234: candidates.sort(key=(similarity, avg_rating), reverse=True), one step
InsertBySimilarity(sorted, c) ==
    LET k == Cardinality({i \in 1..Len(sorted) :
                 \/ sorted[i].similarity > c.similarity
                 \/ /\ sorted[i].similarity = c.similarity
                    /\ sorted[i].avg_rating >= c.avg_rating})
    IN  SubSeq(sorted, 1, k) \o <<c>> \o SubSeq(sorted, k + 1, Len(sorted))

RECURSIVE SortBySimilarity(_)
SortBySimilarity(s) ==
    IF s = <<>> THEN <<>>
    ELSE InsertBySimilarity(SortBySimilarity(SubSeq(s, 1, Len(s) - 1)), s[Len(s)])

\* search_similar_movies(search_term, k) on the frame and the index
search_similar_movies(frame, matrix, search_term, k) ==
    IF search_term = <<>> THEN <<>>
    ELSE LET sims == cosine_similarity(matrix, search_term)
             idx == top_idx_of(sims, k * 2)
             found == [i \in 1..Len(idx) |-> similar_candidate(frame[idx[i]], sims[idx[i]])]
         IN  PySlice(SortBySimilarity(found), k)

\* the search terms of the model: "", "Toy Story (1995)", "the matrix", "a", "scary"
SearchTerms == { <<>>,
                 CatalogRows[1].title,
                 <<"t","h","e"," ","m","a","t","r","i","x">>,
                 <<"a">>,
                 <<"s","c","a","r","y">> }

\* a search call: it has no preference record and no pool
Search(term, k, p, found) ==
    /\ pc = "idle"
    /\ user_text' = term
    /\ top_k' = k
    /\ preferences' = NoPreferences
    /\ ranked_indices' = <<>>
    /\ Finish(p, Len(found), <<>>, "none", <<>>, found, "returned")
    /\ top_idx' = <<>>
    /\ UNCHANGED <<model, doc_matrix, quicksort_stable, prev, enhanced_query, storeVars>>

\* search_exact_movie: line 169 adds its column to a copy of self.movies
SearchExactMovie(term) ==
    /\ Search(term, 0, "exact", search_exact_movie(movies, term))
    /\ UNCHANGED movies

\* search_similar_movies reads the frame and the index
SearchSimilarMovies(term, k) ==
    /\ Search(term, k, "similar", search_similar_movies(movies, doc_matrix, term, k))
    /\ UNCHANGED movies

\* the call that has just ended, as a later call will be compared with it
ThisCall ==
    [set |-> TRUE, user_text |-> user_text, top_k |-> top_k,
     preferences |-> preferences, outcome |-> outcome, result |-> result,
     intervening |-> FALSE]

\* recommend_by_text of a service without Gemini
IndexedRecommend(text, k) ==
    /\ pc = "idle"
    /\ ~model
    /\ text # <<>>
    /\ user_text' = text
    /\ top_k' = k
    /\ preferences' = fallback_preferences(text)
    /\ ranked_indices' = <<>>
    /\ IF Truthy(fallback_preferences(text).year)
       THEN /\ YearPath(fallback_preferences(text), k)
            /\ top_idx' = <<>>
       ELSE LET sims == cosine_similarity(doc_matrix, text)
                idx == top_idx_of(sims, Min(CandidatePool, Len(movies)))
            IN  /\ RetrievalPath(fallback_preferences(text), k, idx)
                /\ top_idx' = idx
    /\ UNCHANGED <<model, doc_matrix, quicksort_stable, prev, enhanced_query, storeVars>>

\* the caller has the result; it may keep it to compare a later call with it
IndexedReturn(remember) ==
    /\ pc = "done"
    /\ prev' = IF remember /\ path \in {"year", "retrieval"} THEN ThisCall
               ELSE IF prev.set THEN [prev EXCEPT !.intervening = TRUE]
               ELSE prev
    /\ ResetRequest
    /\ top_idx' = <<>>
    /\ UNCHANGED <<movies, model, doc_matrix, quicksort_stable, enhanced_query,
                   storeVars>>

InitRetriever ==
    /\ \E n \in 1..Min(MaxCatalog, Len(CatalogRows)) :
           /\ movies = load_and_build(n)
           /\ doc_matrix \in Indexes(n)
    /\ model = FALSE
    /\ quicksort_stable \in BOOLEAN
    /\ pc = "idle"
    /\ user_text = <<>>
    /\ top_k = 0
    /\ preferences = NoPreferences
    /\ path = "none"
    /\ eligible = 0
    /\ candidates = <<>>
    /\ rerank = "none"
    /\ ranked_indices = <<>>
    /\ reranked_head = <<>>
    /\ result = <<>>
    /\ outcome = "idle"
    /\ top_idx = <<>>
    /\ enhanced_query = <<>>
    /\ prev = NoCall
    /\ NoStores

NextRetriever ==
    \/ \E text \in Messages, k \in 1..MaxTopK : IndexedRecommend(text, k)
    \/ \E term \in SearchTerms : SearchExactMovie(term)
    \/ \E term \in Queries \cup {<<>>}, k \in 1..MaxTopK : SearchSimilarMovies(term, k)
    \/ \E remember \in BOOLEAN : IndexedReturn(remember)

SpecRetriever == InitRetriever /\ [][NextRetriever]_vars

(***************************************************************************)
(* MovieSubmissionService.validate_and_submit                              *)
(* (app/services/movie_submission_service.py).  Times are hours since the  *)
(* start of the process.                                                   *)
(***************************************************************************)
MAX_SUBMISSIONS_PER_DAY == 3
SUBMISSION_WINDOW_HOURS == 24
\* line 458: timedelta(days=30)
LogRetentionHours == 720
\* the clock of the model advances in steps of TickHours
TickHours == 24

\* what _extract_movie_info gets from Gemini: nothing usable (no title), "X",
\* "Toy Story (1995)" of 1995, "New"
MovieData ==
    { [title |-> <<>>, year |-> None],
      [title |-> <<"X">>, year |-> None],
      [title |-> CatalogRows[1].title, year |-> 1995],
      [title |-> <<"N","e","w">>, year |-> None] }

\* what _validate_with_ai gets from Gemini, the confidence in percent
Validations ==
    { [safe |-> FALSE, confidence |-> 0],
      [safe |-> TRUE, confidence |-> 90] }

\* lines 410-413: the logged times inside the window
recent_submissions(user_log, t) ==
    SelectSeq(user_log, LAMBDA sub_time : sub_time >= t - SUBMISSION_WINDOW_HOURS)

\* _check_submission_frequency: the "allowed" of its answer
check_submission_frequency(log_data, user_id, t) ==
    Len(recent_submissions(log_data[user_id], t)) < MAX_SUBMISSIONS_PER_DAY

\* _check_basic_format for titles without Chinese characters and spam words and
\* for data without genres: the length of the title and the earliest year
check_basic_format(movie_data) ==
    /\ Len(strip(movie_data.title)) >= 2
    /\ Len(strip(movie_data.title)) <= 200
    /\ (Truthy(movie_data.year) => movie_data.year >= 1888)

\* re.sub(r'\((\d{4})\)', '', s)
RECURSIVE remove_bare_year(_)
remove_bare_year(s) ==
    IF s = <<>> THEN s
    ELSE IF /\ Len(s) >= 6
            /\ s[1] = "("
            /\ \A j \in 2..5 : IsDigit(s[j])
            /\ s[6] = ")"
    THEN remove_bare_year(SubSeq(s, 7, Len(s)))
    ELSE <<Head(s)>> \o remove_bare_year(Tail(s))

\* _check_duplicates on the frame of the RecommendationService it builds
check_duplicates(frame, movie_data) ==
    LET title_clean == strip(remove_bare_year(lower(movie_data.title)))
    IN  \E i \in 1..Len(frame) :
            strip(remove_bare_year(lower(frame[i].title))) = title_clean

\* _record_submission: the log with the time of this submission, cut to 30 days
record_submission(log_data, user_id, t) ==
    [log_data EXCEPT ![user_id] =
        SelectSeq(Append(@, t), LAMBDA sub_time : sub_time >= t - LogRetentionHours)]

\* lines 95-106: the record of a rejected submission
rejected_submission(user_id, t, movie_data, validation) ==
    [submission_id |-> <<"rejected", user_id, t>>, user_id |-> user_id,
     timestamp |-> t, movie_data |-> movie_data,
     validation_safe |-> validation.safe,
     validation_confidence |-> validation.confidence,
     status |-> "rejected", can_appeal |-> TRUE]

\* lines 135-149: the record of a submission that waits for review
pending_submission(user_id, t, movie_data, validation) ==
    [submission_id |-> <<user_id, t>>, user_id |-> user_id,
     timestamp |-> t, movie_data |-> movie_data,
     validation_safe |-> validation.safe,
     validation_confidence |-> validation.confidence,
     status |-> "pending", needs_manual_review |-> validation.confidence < 95]

\* validate_and_submit, lines 46-164: the step at which the call ends
submission_verdict(log_data, frame, user_id, t, movie_data, validation) ==
    IF ~check_submission_frequency(log_data, user_id, t) THEN "frequency"
    ELSE IF movie_data.title = <<>> THEN "no_info"
    ELSE IF ~check_basic_format(movie_data) THEN "bad_format"
    ELSE IF ~validation.safe \/ validation.confidence < 80 THEN "rejected"
    ELSE IF check_duplicates(frame, movie_data) THEN "duplicate"
    ELSE "accepted"

\* validate_and_submit(user_id, user_message), with what Gemini extracts from the
\* message and what it answers to the validation
ValidateAndSubmit(user_id, movie_data, validation) ==
    LET \* line 326: _check_duplicates builds a RecommendationService of its own
        rec_service_movies == load_and_build(Len(movies))
        verdict == submission_verdict(user_submission_log, rec_service_movies,
                                      user_id, now, movie_data, validation)
    IN  /\ calls < MaxCalls
        /\ calls' = calls + 1
        /\ reply' = verdict
        /\ passed' = IF verdict = "frequency" THEN passed
                      ELSE [passed EXCEPT ![user_id] = Append(@, now)]
        /\ appeal_file' =
               IF verdict = "rejected"
               THEN Append(appeal_file,
                           rejected_submission(user_id, now, movie_data, validation))
               ELSE appeal_file
        /\ builds' = IF verdict \in {"duplicate", "accepted"} THEN builds + 1 ELSE builds
        /\ user_submission_log' =
               IF verdict = "accepted"
               THEN record_submission(user_submission_log, user_id, now)
               ELSE user_submission_log
        /\ pending_file' =
               IF verdict = "accepted"
               THEN Append(pending_file,
                           pending_submission(user_id, now, movie_data, validation))
               ELSE pending_file
        /\ UNCHANGED <<now, approved_file, serviceVars, retrieverVars, preferenceVars,
                       handlerVars>>

\* time passes
Tick ==
    /\ now < MaxTicks * TickHours
    /\ now' = now + TickHours
    /\ UNCHANGED <<builds, user_submission_log, pending_file, appeal_file,
                   approved_file, passed, calls, reply, serviceVars, retrieverVars,
                   preferenceVars, handlerVars>>

\* no request is being served
NoRequest ==
    /\ pc = "idle"
    /\ user_text = <<>>
    /\ top_k = 0
    /\ preferences = NoPreferences
    /\ path = "none"
    /\ eligible = 0
    /\ candidates = <<>>
    /\ rerank = "none"
    /\ ranked_indices = <<>>
    /\ reranked_head = <<>>
    /\ result = <<>>
    /\ outcome = "idle"
    /\ top_idx = <<>>
    /\ enhanced_query = <<>>
    /\ prev = NoCall

InitSubmission ==
    /\ movies = load_and_build(Min(MaxCatalog, Len(CatalogRows)))
    /\ model = TRUE
    /\ doc_matrix = NoIndex
    /\ quicksort_stable = TRUE
    /\ NoRequest
    /\ NoStores

NextSubmission ==
    \/ \E user_id \in Users, movie_data \in MovieData, validation \in Validations :
           ValidateAndSubmit(user_id, movie_data, validation)
    \/ Tick

SpecSubmission == InitSubmission /\ [][NextSubmission]_vars

(***************************************************************************)
(* The user preference files (user_preference_service.py).  Two callers    *)
(* use the one UserPreferenceService; each of its operations is a load     *)
(* (json.load of the user's file) and, later, a save (json.dump over it).  *)
(* The timestamps of the records are left out.                             *)
(***************************************************************************)
Workers == {1, 2}

\* the query_preferences of update_preferences_from_query: a liked genre, and an
\* excluded genre with a mood
QueryPreferences ==
    { [genres |-> <<"Horror">>, exclude_genres |-> <<>>, mood |-> ""],
      [genres |-> <<>>, exclude_genres |-> <<"War">>, mood |-> "dark"] }

\* the genre a user asks to remove from the favourites
RemovableGenres == {"Horror"}

\* the (movie_id, action) pairs of record_movie_interaction
Interactions == { [movie_id |-> "1", action |-> "view"] }

\* lines 76 and 102: query_history[-50:] and interactions[-100:]
QueryHistoryLimit == 50
InteractionsLimit == 100

\* load_user_preferences: the content of the file, the default without a file
load_user_preferences(file) ==
    IF file.exists THEN file.preferences ELSE default_preferences

\* seq[-k:] for k > 0
PyLast(seq, k) == SubSeq(seq, Max(Len(seq) - k, 0) + 1, Len(seq))

\* _merge_lists: list(dict.fromkeys(list1 + list2))
merge_lists(list1, list2) ==
    LET merged == list1 \o list2
        first(i) == \A j \in 1..(i - 1) : merged[j] # merged[i]
        F[i \in 0..Len(merged)] ==
            IF i = 0 THEN <<>>
            ELSE IF first(i) THEN Append(F[i - 1], merged[i]) ELSE F[i - 1]
    IN  F[Len(merged)]

\* _calculate_preference_strength: the count of every genre of the query history
calculate_preference_strength(query_history) ==
    LET occurrences(g) ==
            {<<i, j>> \in (1..Len(query_history)) \X (1..1) :
                \E n \in 1..Len(query_history[i].genres) :
                    query_history[i].genres[n] = g}
        genres == {g \in {"Horror", "War"} : occurrences(g) # {}}
    IN  [g \in genres |-> Cardinality(occurrences(g))]

\* update_preferences_from_query, lines 56-85, on the loaded record
updated_from_query(p, query_preferences) ==
    LET history == PyLast(Append(p.query_history, query_preferences),
                          QueryHistoryLimit)
    IN  [p EXCEPT
           !.favorite_genres =
               IF query_preferences.genres # <<>>
               THEN merge_lists(@, query_preferences.genres) ELSE @,
           !.excluded_genres =
               IF query_preferences.exclude_genres # <<>>
               THEN merge_lists(@, query_preferences.exclude_genres) ELSE @,
           !.favorite_moods =
               IF query_preferences.mood # ""
               THEN @ \cup {query_preferences.mood} ELSE @,
           !.query_history = history,
           !.genre_preference_strength = calculate_preference_strength(history)]

\* list.remove(genre): the list without the first occurrence of genre
list_remove(list, genre) ==
    LET at == CHOOSE i \in 1..Len(list) :
                  list[i] = genre /\ \A j \in 1..(i - 1) : list[j] # genre
    IN  SubSeq(list, 1, at - 1) \o SubSeq(list, at + 1, Len(list))

\* reset_preferences, lines 154-155: the default record of this user
reset_record(user_id) == [default_preferences EXCEPT !.user_id = user_id]

\* whether the operation op, having loaded p, saves: remove_genre_from_favorites
\* does if genre in preferences["favorite_genres"], the others always
saves(op, p) ==
    op.name = "remove_genre" =>
        \E i \in 1..Len(p.favorite_genres) : p.favorite_genres[i] = op.genre

\* the record the operation op saves after it has loaded p
record_to_save(op, p) ==
    CASE op.name = "update" -> updated_from_query(p, op.query_preferences)
      [] op.name = "interaction" ->
             [p EXCEPT !.interactions =
                 PyLast(Append(@, op.interaction), InteractionsLimit)]
      [] op.name = "remove_genre" ->
             [p EXCEPT !.favorite_genres = list_remove(@, op.genre)]
      [] op.name = "reset" -> reset_record(op.user_id)

\* the file after the operation op has run alone on it, from its load to its save
run_alone(op, file) ==
    IF saves(op, load_user_preferences(file))
    THEN [exists |-> TRUE,
          preferences |-> record_to_save(op, load_user_preferences(file))]
    ELSE file

\* the first half of an operation: the caller w has the loaded record in hand
Load(w, op) ==
    /\ ops[w].pc = "idle"
    /\ calls < MaxCalls
    /\ calls' = calls + 1
    /\ ops' = [ops EXCEPT ![w] =
                  [pc |-> "loaded", op |-> op,
                   preferences |-> load_user_preferences(stored[op.user_id])]]
    /\ UNCHANGED stored

\* update_preferences_from_query(user_id, query_preferences), line 53
UpdatePreferencesFromQuery(w, user_id, query_preferences) ==
    /\ Load(w, [name |-> "update", user_id |-> user_id,
                query_preferences |-> query_preferences])
    /\ UNCHANGED <<builds, now, user_submission_log, pending_file, appeal_file,
                   approved_file, passed, reply, serviceVars, retrieverVars,
                   handlerVars>>

\* record_movie_interaction(user_id, movie_id, action), line 92
RecordMovieInteraction(w, user_id, interaction) ==
    /\ Load(w, [name |-> "interaction", user_id |-> user_id,
                interaction |-> interaction])
    /\ UNCHANGED <<builds, now, user_submission_log, pending_file, appeal_file,
                   approved_file, passed, reply, serviceVars, retrieverVars,
                   handlerVars>>

\* remove_genre_from_favorites(user_id, genre), line 161
RemoveGenreFromFavorites(w, user_id, genre) ==
    /\ Load(w, [name |-> "remove_genre", user_id |-> user_id, genre |-> genre])
    /\ UNCHANGED <<builds, now, user_submission_log, pending_file, appeal_file,
                   approved_file, passed, reply, serviceVars, retrieverVars,
                   handlerVars>>

\* the second half: the changes to the loaded record and save_user_preferences;
\* remove_genre_from_favorites saves only when the loaded record has the genre.
\* The caller keeps what the file held before the save and what it holds now.
SaveUserPreferences(w) ==
    LET op == ops[w].op
        p == ops[w].preferences
        written == IF saves(op, p)
                   THEN [exists |-> TRUE, preferences |-> record_to_save(op, p)]
                   ELSE stored[op.user_id]
    IN  /\ ops[w].pc = "loaded"
        /\ stored' = [stored EXCEPT ![op.user_id] = written]
        /\ ops' = [ops EXCEPT ![w] =
                      [pc |-> "returned", op |-> op, saved |-> saves(op, p),
                       replaced |-> stored[op.user_id], written |-> written]]
        /\ UNCHANGED <<submissionVars, serviceVars, retrieverVars, handlerVars>>

\* reset_preferences(user_id): no load, the default record is saved
ResetPreferences(w, user_id) ==
    LET op == [name |-> "reset", user_id |-> user_id]
        written == [exists |-> TRUE, preferences |-> reset_record(user_id)]
    IN  /\ ops[w].pc = "idle"
        /\ calls < MaxCalls
        /\ calls' = calls + 1
        /\ stored' = [stored EXCEPT ![user_id] = written]
        /\ ops' = [ops EXCEPT ![w] =
                      [pc |-> "returned", op |-> op, saved |-> TRUE,
                       replaced |-> stored[user_id], written |-> written]]
        /\ UNCHANGED <<builds, now, user_submission_log, pending_file, appeal_file,
                       approved_file, passed, reply, serviceVars, retrieverVars,
                       handlerVars>>

\* the operation has returned to its caller
OperationReturns(w) ==
    /\ ops[w].pc = "returned"
    /\ ops' = [ops EXCEPT ![w] = NoOperation]
    /\ UNCHANGED <<stored, submissionVars, serviceVars, retrieverVars, handlerVars>>

InitPreferences ==
    /\ movies = load_and_build(Min(MaxCatalog, Len(CatalogRows)))
    /\ model = TRUE
    /\ doc_matrix = NoIndex
    /\ quicksort_stable = TRUE
    /\ NoRequest
    /\ NoStores

NextPreferences ==
    \E w \in Workers :
        \/ \E user_id \in Users, query_preferences \in QueryPreferences :
               UpdatePreferencesFromQuery(w, user_id, query_preferences)
        \/ \E user_id \in Users, interaction \in Interactions :
               RecordMovieInteraction(w, user_id, interaction)
        \/ \E user_id \in Users, genre \in RemovableGenres :
               RemoveGenreFromFavorites(w, user_id, genre)
        \/ \E user_id \in Users : ResetPreferences(w, user_id)
        \/ SaveUserPreferences(w)
        \/ OperationReturns(w)

SpecPreferences == InitPreferences /\ [][NextPreferences]_vars

(***************************************************************************)
(* The reranked slice.  A service whose catalog has more items than the    *)
(* slice given to the reranker: item i has movieId i and a quality score   *)
(* that falls with i.                                                      *)
(***************************************************************************)
\* _load_and_build on a source of n items of falling rating
large_catalog(n) ==
    [i \in 1..n |->
        [movieId |-> i, title |-> <<"M">>, year |-> 2000,
         genres |-> <<"D","r","a","m","a">>,
         avg_rating |-> 50 - i, rating_count |-> 999]]

\* recommend_by_text(text, top_k) up to the reranker call (lines 97-136), for a
\* text whose extracted record names no year and no excluded genre and whose
\* similarities fall with the catalog position
RecommendFromLargeCatalog(text, k) ==
    /\ pc = "idle"
    /\ model
    /\ text # <<>>
    /\ user_text' = text
    /\ top_k' = k
    /\ preferences' = NoPreferences
    /\ ranked_indices' = <<>>
    /\ RetrievalPath(NoPreferences, k,
                     [i \in 1..Min(CandidatePool, Len(movies)) |-> i])
    /\ UNCHANGED <<model, retrieverVars, storeVars>>

InitRerank ==
    /\ \E n \in (RerankSlice - 1)..MaxPool : movies = large_catalog(n)
    /\ model = TRUE
    /\ doc_matrix = NoIndex
    /\ quicksort_stable = TRUE
    /\ NoRequest
    /\ NoStores

\* the requests ask for MaxTopK items, for the 5 of the message handler
\* (message_handler.py line 451) or for the whole pool; the responses name the
\* first and the last position of the slice and the first one past it
NextRerank ==
    \/ \E text \in Messages, k \in {MaxTopK, 5, MaxPool} :
           RecommendFromLargeCatalog(text, k)
    \/ \E kind \in {"exception", "unparseable", "no_object"} : RerankFails(kind)
    \/ \E indices \in UNION {[1..len -> {0, RerankSlice - 1, RerankSlice}] :
                                len \in 0..MaxRanked} :
           RerankAccepted(indices)
    \/ RerankAcceptedDefault
    \/ Return

SpecRerank == InitRerank /\ [][NextRerank]_vars

(***************************************************************************)
(* Query Enhancer (RecommendationService._enhance_query_with_preferences), *)
(* on preference records that carry the fields it reads.  A mood of None   *)
(* and a mood of "" are both falsy; the model has the empty one.           *)
(***************************************************************************)
\* " ".join(parts)
RECURSIVE Join(_)
Join(parts) ==
    IF parts = <<>> THEN <<>>
    ELSE IF Len(parts) = 1 THEN parts[1]
    ELSE parts[1] \o <<" ">> \o Join(Tail(parts))

\* the enhancer with the genres appended once
enhance_query_genres_once(text, prefs) ==
    Join(<<text>>
         \o (IF prefs.genres # <<>> THEN <<Join(prefs.genres)>> ELSE <<>>)
         \o (IF prefs.keywords # <<>> THEN <<Join(prefs.keywords)>> ELSE <<>>)
         \o (IF prefs.mood # <<>> THEN <<prefs.mood>> ELSE <<>>)
         \o (IF prefs.countries # <<>>
             THEN <<Join(prefs.countries), Join(prefs.countries)>> ELSE <<>>))

\* _enhance_query_with_preferences(user_text, preferences), lines 360-384: the
\* parts appended to enhanced_parts, joined
enhance_query_with_preferences(text, prefs) ==
    Join(<<text>>
         \o (IF prefs.genres # <<>>
             THEN <<Join(prefs.genres), Join(prefs.genres)>> ELSE <<>>)
         \o (IF prefs.keywords # <<>> THEN <<Join(prefs.keywords)>> ELSE <<>>)
         \o (IF prefs.mood # <<>> THEN <<prefs.mood>> ELSE <<>>)
         \o (IF prefs.countries # <<>>
             THEN <<Join(prefs.countries), Join(prefs.countries)>> ELSE <<>>))

\* line 107: the enhancer is applied to the text and the preference record
EnhanceQuery ==
    /\ pc = "idle"
    /\ enhanced_query' = enhance_query_with_preferences(user_text, preferences)
    /\ pc' = "done"
    /\ UNCHANGED <<movies, model, user_text, top_k, preferences, path, eligible,
                   candidates, rerank, ranked_indices, reranked_head, result, outcome,
                   doc_matrix, quicksort_stable, top_idx, prev, storeVars>>

\* a service with the whole catalog, and a text and a preference record with no
\* year: genres [], ["Horror"], ["Horror", "War"]; keywords [], ["ghost", "old"];
\* mood "", "dark"; countries [], ["Japan"], ["Japan", "US"]
InitEnhancer ==
    /\ movies = load_and_build(Min(MaxCatalog, Len(CatalogRows)))
    /\ model = TRUE
    /\ pc = "idle"
    /\ user_text \in Messages
    /\ top_k = 0
    /\ preferences \in
           [year : {None},
            exclude_genres : {<<>>},
            genres : {<<>>, << <<"H","o","r","r","o","r">> >>,
                      << <<"H","o","r","r","o","r">>, <<"W","a","r">> >>},
            keywords : {<<>>, << <<"g","h","o","s","t">>, <<"o","l","d">> >>},
            mood : {<<>>, <<"d","a","r","k">>},
            countries : {<<>>, << <<"J","a","p","a","n">> >>,
                         << <<"J","a","p","a","n">>, <<"U","S">> >>}]
    /\ path = "none"
    /\ eligible = 0
    /\ candidates = <<>>
    /\ rerank = "none"
    /\ ranked_indices = <<>>
    /\ reranked_head = <<>>
    /\ result = <<>>
    /\ outcome = "idle"
    /\ doc_matrix = NoIndex
    /\ quicksort_stable = TRUE
    /\ top_idx = <<>>
    /\ enhanced_query = <<>>
    /\ prev = NoCall
    /\ NoStores

NextEnhancer == EnhanceQuery

SpecEnhancer == InitEnhancer /\ [][NextEnhancer]_vars

(***************************************************************************)
(* MessageHandler.handle_text_message (app/handlers/message_handler.py)    *)
(* with the two sends of LineBotService, whose outcome is LINE's.  Of a    *)
(* message the model keeps its kind: a recommendation request, a reset of  *)
(* the preferences (a quick response, no confirmation) or a general        *)
(* message; found says whether the engine has candidates for it.           *)
(***************************************************************************)
MessageKinds == {"recommend", "reset", "general"}

\* the public and private methods of class UserPreferenceService
UserPreferenceServiceMethods ==
    {"_get_user_file_path", "load_user_preferences", "save_user_preferences",
     "update_preferences_from_query", "record_movie_interaction",
     "get_personalized_preferences", "get_preference_summary",
     "reset_preferences", "remove_genre_from_favorites",
     "remove_genre_from_excluded", "_merge_lists",
     "_calculate_preference_strength", "_get_most_common",
     "_default_preferences"}

\* handle_movie_recommendation: line 329 calls clear_current_movie_context
\* inside the try of line 327, and line 397 turns every exception into the
\* error text; then the engine's candidates decide
handle_movie_recommendation(found) ==
    IF "clear_current_movie_context" \notin UserPreferenceServiceMethods
    THEN "error"
    ELSE IF found THEN "recommendations" ELSE "not_found"

\* lines 31-70: the confirmation message is replied first; use_push tells
\* whether that reply went out (the reply token is then spent)
ReceiveTextMessage(user_id, kind, found, confirmed) ==
    /\ handling.pc = "idle"
    /\ handling' = [pc |-> "handling", user_id |-> user_id, kind |-> kind,
                    found |-> found,
                    use_push |-> kind # "reset" /\ confirmed,
                    response |-> "none", ran |-> <<>>,
                    sent |-> IF kind # "reset" /\ confirmed
                             THEN <<"confirmation">> ELSE <<>>]
    /\ UNCHANGED <<serviceVars, retrieverVars, submissionVars, preferenceVars>>

\* lines 72-138: the handler of the message's kind, then the send of its
\* response, with push_message after a confirmation and reply_message without.
\* A general message reads the movie context first (line 102).  An exception
\* of the handler or of the send leads to line 139.
HandleRequest(delivered) ==
    LET kind == handling.kind
        raised == /\ kind = "general"
                  /\ "get_current_movie_context" \notin UserPreferenceServiceMethods
        response == CASE kind = "recommend" ->
                             handle_movie_recommendation(handling.found)
                      [] kind = "reset" -> "preferences_reset"
                      [] OTHER -> "general_reply"
        handler == CASE kind = "recommend" -> "handle_movie_recommendation"
                     [] kind = "reset" -> "handle_reset_preferences"
                     [] OTHER -> "handle_general_message"
    IN  /\ handling.pc = "handling"
        /\ stored' = IF kind = "reset"
                     THEN [stored EXCEPT ![handling.user_id] =
                              [exists |-> TRUE,
                               preferences |-> reset_record(handling.user_id)]]
                     ELSE stored
        /\ handling' =
               IF raised
               THEN [handling EXCEPT !.pc = "recovering"]
               ELSE [handling EXCEPT
                        !.pc = IF delivered THEN "done" ELSE "recovering",
                        !.response = response,
                        !.ran = Append(@, handler),
                        !.sent = IF delivered THEN Append(@, response) ELSE @]
        /\ UNCHANGED <<serviceVars, retrieverVars, submissionVars, ops>>

\* lines 139-168: after an exception the request is handled again, by
\* handle_movie_recommendation when the message has a recommendation word and
\* by handle_general_message otherwise, and the response is sent: by
\* push_message after a confirmation, else by reply_message and, when that
\* raises, by push_message.  When the last send raises, line 162 replies the
\* apology and swallows its failure.
Recover(delivered, pushed, apologised) ==
    LET kind == handling.kind
        response == IF kind = "recommend"
                    THEN handle_movie_recommendation(handling.found)
                    ELSE "general_reply"
        handler == IF kind = "recommend" THEN "handle_movie_recommendation"
                   ELSE "handle_general_message"
        went_out == IF handling.use_push THEN delivered ELSE delivered \/ pushed
    IN  /\ handling.pc = "recovering"
        /\ handling' = [handling EXCEPT
                           !.pc = "done",
                           !.response = response,
                           !.ran = Append(@, handler),
                           !.sent = IF went_out THEN Append(@, response)
                                    ELSE IF apologised THEN Append(@, "apology")
                                    ELSE @]
        /\ UNCHANGED <<serviceVars, retrieverVars, submissionVars, preferenceVars>>

\* handle_text_message has returned
MessageDone ==
    /\ handling.pc = "done"
    /\ handling' = NoMessage
    /\ UNCHANGED <<serviceVars, retrieverVars, submissionVars, preferenceVars>>

InitHandler ==
    /\ movies = load_and_build(Min(MaxCatalog, Len(CatalogRows)))
    /\ model = TRUE
    /\ doc_matrix = NoIndex
    /\ quicksort_stable = TRUE
    /\ NoRequest
    /\ NoStores

NextHandler ==
    \/ \E user_id \in Users, kind \in MessageKinds, found \in BOOLEAN,
          confirmed \in BOOLEAN :
           ReceiveTextMessage(user_id, kind, found, confirmed)
    \/ \E delivered \in BOOLEAN : HandleRequest(delivered)
    \/ \E delivered \in BOOLEAN, pushed \in BOOLEAN, apologised \in BOOLEAN :
           Recover(delivered, pushed, apologised)
    \/ MessageDone

SpecHandler == InitHandler /\ [][NextHandler]_vars

(***************************************************************************)
(* The appeal of a rejected submission                                     *)
(* (MovieSubmissionService.appeal_rejected_submission) and its review by   *)
(* the administrator (app/utils/admin_tools.py, called by                  *)
(* review_appeals.py with the id the administrator types).                 *)
(***************************************************************************)
\* the rejected submissions of one behaviour
MaxRejected == 2

\* get_user_recent_rejected_submissions(user_id, limit): the user's entries of
\* status "rejected", the most recent first
get_user_recent_rejected_submissions(user_id, limit) ==
    LET user_rejected ==
            SelectSeq(appeal_file,
                      LAMBDA sub : sub.user_id = user_id /\ sub.status = "rejected")
        newer(i) == Cardinality({j \in 1..Len(user_rejected) :
                        \/ user_rejected[j].timestamp > user_rejected[i].timestamp
                        \/ /\ user_rejected[j].timestamp = user_rejected[i].timestamp
                           /\ j < i})
        sorted == [k \in 1..Len(user_rejected) |->
                      user_rejected[CHOOSE i \in 1..Len(user_rejected) :
                                        newer(i) = k - 1]]
    IN  PySlice(sorted, limit)

\* appeal_rejected_submission(user_id, submission_id); the submission_id
\* None, "the most recent one", is the empty tuple
AppealRejectedSubmission(user_id, submission_id) ==
    LET recent_rejected == get_user_recent_rejected_submissions(user_id, 10)
        matching == SelectSeq(recent_rejected,
                              LAMBDA sub : sub.submission_id = submission_id)
        found == IF submission_id = <<>> THEN recent_rejected # <<>>
                 ELSE recent_rejected # <<>> /\ matching # <<>>
        target == IF submission_id = <<>> THEN recent_rejected[1] ELSE matching[1]
        appealed == [f \in DOMAIN target \cup {"appeal_timestamp"} |->
                        IF f = "status" THEN "appeal"
                        ELSE IF f = "appeal_timestamp" THEN now
                        ELSE target[f]]
    IN  /\ reply' = IF found THEN "appealed" ELSE "nothing_to_appeal"
        /\ appeal_file' =
               IF found
               THEN Append(SelectSeq(appeal_file,
                               LAMBDA sub : sub.submission_id # target.submission_id),
                           appealed)
               ELSE appeal_file
        /\ UNCHANGED <<builds, now, user_submission_log, pending_file,
                       approved_file, passed, calls, serviceVars, retrieverVars,
                       preferenceVars, handlerVars>>

\* approve_appeal(submission_id): the first entry of the appeal file with this
\* id is marked approved, appended to the approved file and taken out of the
\* appeal file
ApproveAppeal(submission_id) ==
    LET matching == SelectSeq(appeal_file,
                              LAMBDA a : a.submission_id = submission_id)
        found == matching # <<>>
        target_appeal == matching[1]
        reviewed == [f \in DOMAIN target_appeal \cup {"reviewed_at"} |->
                        IF f = "status" THEN "approved"
                        ELSE IF f = "reviewed_at" THEN now
                        ELSE target_appeal[f]]
    IN  /\ reply' = IF found THEN "approve_true" ELSE "approve_false"
        /\ approved_file' = IF found THEN Append(approved_file, reviewed)
                            ELSE approved_file
        /\ appeal_file' = IF found
                          THEN SelectSeq(appeal_file,
                                   LAMBDA a : a.submission_id # submission_id)
                          ELSE appeal_file
        /\ UNCHANGED <<builds, now, user_submission_log, pending_file, passed,
                       calls, serviceVars, retrieverVars, preferenceVars,
                       handlerVars>>

\* reject_appeal(submission_id): the first entry of the appeal file with this
\* id is marked finally_rejected in place
RejectAppeal(submission_id) ==
    LET hits == {i \in 1..Len(appeal_file) :
                    appeal_file[i].submission_id = submission_id}
        found == hits # {}
        first == CHOOSE i \in hits : \A j \in hits : i <= j
        target_appeal == appeal_file[first]
        reviewed == [f \in DOMAIN target_appeal \cup {"reviewed_at"} |->
                        IF f = "status" THEN "finally_rejected"
                        ELSE IF f = "reviewed_at" THEN now
                        ELSE target_appeal[f]]
    IN  /\ reply' = IF found THEN "reject_true" ELSE "reject_false"
        /\ appeal_file' = IF found THEN [appeal_file EXCEPT ![first] = reviewed]
                          ELSE appeal_file
        /\ UNCHANGED <<builds, now, user_submission_log, pending_file,
                       approved_file, passed, calls, serviceVars, retrieverVars,
                       preferenceVars, handlerVars>>

InitAppeal ==
    /\ movies = load_and_build(Min(MaxCatalog, Len(CatalogRows)))
    /\ model = TRUE
    /\ doc_matrix = NoIndex
    /\ quicksort_stable = TRUE
    /\ NoRequest
    /\ NoStores

\* validate_and_submit of a message that Gemini judges unsafe; the id of a
\* rejected submission has the second of its arrival, and a user sends at most
\* one message in one tick of the clock
SubmitRejected(user_id) ==
    /\ Len(appeal_file) + Len(approved_file) < MaxRejected
    /\ \A i \in 1..Len(appeal_file) :
           appeal_file[i].submission_id # <<"rejected", user_id, now>>
    /\ \A i \in 1..Len(approved_file) :
           approved_file[i].submission_id # <<"rejected", user_id, now>>
    /\ ValidateAndSubmit(user_id, [title |-> <<"N","e","w">>, year |-> None],
                         [safe |-> FALSE, confidence |-> 0])

\* The ids an appeal or a review names are those of the appeal file and one
\* that is in no file.
NextAppeal ==
    LET ids == {<<"rejected", "u0", 0>>}
               \cup {appeal_file[i].submission_id : i \in 1..Len(appeal_file)}
    IN  \/ \E user_id \in Users : SubmitRejected(user_id)
        \/ Tick
        \/ \E user_id \in Users, submission_id \in {<<>>} \cup ids :
               AppealRejectedSubmission(user_id, submission_id)
        \/ \E submission_id \in ids : ApproveAppeal(submission_id)
        \/ \E submission_id \in ids : RejectAppeal(submission_id)

SpecAppeal == InitAppeal /\ [][NextAppeal]_vars

(***************************************************************************)
(* The claims.                                                             *)
(***************************************************************************)
Ids(s) == [i \in 1..Len(s) |-> s[i].movieId]

\* recommend_by_text returned a list from one of its two paths
Returned == pc = "done" /\ outcome = "returned" /\ path \in {"year", "retrieval"}

\* the request ended, by a return or by an exception, on one of its two paths
Ended == pc = "done" /\ path \in {"year", "retrieval"}

\* the catalog row of a returned candidate
RowOf(c) == CHOOSE i \in 1..Len(movies) : movies[i].movieId = c.movieId

\* the result of lines 135-140 when rerank_recommendations returns its argument
QualityOrdered == PySlice(candidates, top_k)

\* C1: on both paths and for every integer top_k, the returned list is no longer
\* than top_k (no longer than the empty list when top_k is negative) and no longer
\* than the number of eligible candidates.
C1_LengthBounded ==
    Returned => Len(result) <= Max(top_k, 0) /\ Len(result) <= eligible

\* C2: on the retrieval path no returned candidate has a genre field that contains
\* an excluded genre as a substring, as written, or translated and in any case.
C2_ExcludedGenresNeverReturned ==
    (Returned /\ path = "retrieval") =>
        \A i \in 1..Len(preferences.exclude_genres), j \in 1..Len(result) :
            /\ ~contains(preferences.exclude_genres[i], result[j].genres)
            /\ ~contains(lower(genre_mapping_get(preferences.exclude_genres[i])),
                         lower(result[j].genres))

\* a reranked, non-empty result of a request whose exclude list removed a catalog item
C2_Witness ==
    /\ Returned
    /\ path = "retrieval"
    /\ rerank = "accepted"
    /\ preferences.exclude_genres # <<>>
    /\ result # <<>>
    /\ eligible < Len(movies)

C4_RerankerFailure ==
    (pc = "done" /\ rerank \in {"exception", "unparseable", "no_object"}) =>
        /\ outcome = "returned"
        /\ reranked_head = PySlice(candidates, RerankSlice)
        /\ result = QualityOrdered

\* a failed reranker call on at least two candidates, with a non-empty result
C4_Witness ==
    /\ pc = "done"
    /\ rerank = "exception"
    /\ Len(candidates) >= 2
    /\ Len(result) >= 2

\* C5: an accepted response gives a head that is a permutation of the slice.
C5_HeadIsPermutation ==
    (pc = "done" /\ rerank = "accepted") =>
        LET slice == PySlice(candidates, RerankSlice)
        IN  /\ Len(reranked_head) = Len(slice)
            /\ \A i \in 1..Len(slice) :
                   Cardinality({j \in 1..Len(reranked_head) :
                                   reranked_head[j].movieId = slice[i].movieId}) = 1
            /\ \A j \in 1..Len(reranked_head) :
                   \E i \in 1..Len(slice) : slice[i].movieId = reranked_head[j].movieId

\* ranked_indices names every position of a slice of n candidates exactly once
IsPermutationOfSlice(indices, n) ==
    /\ Len(indices) = n
    /\ \A v \in 0..(n - 1) : Cardinality({j \in 1..Len(indices) : indices[j] = v}) = 1

\* C6: a response whose ranked_indices hold a foreign index, a duplicate or a gap
\* is discarded, and the quality-ordered candidates are returned.
C6_MalformedResponseDiscarded ==
    (/\ pc = "done"
     /\ rerank = "accepted"
     /\ ~IsPermutationOfSlice(ranked_indices, Len(PySlice(candidates, RerankSlice)))) =>
        /\ outcome = "returned"
        /\ Ids(result) = Ids(QualityOrdered)

\* C7: for top_k <= 0, on both paths, the request returns an empty list.
C7_NonPositiveTopK ==
    (Ended /\ top_k <= 0) => outcome = "returned" /\ result = <<>>

C9_ExactlyTopK ==
    (Returned /\ top_k > 0) => Len(result) = Min(top_k, eligible)

\* C10: every returned candidate carries a quality_score, and it is in [0, 1].
C10_QualityScoreInRange ==
    Returned =>
        \A j \in 1..Len(result) :
            /\ "quality_score" \in DOMAIN result[j]
            /\ 0 <= result[j].quality_score
            /\ result[j].quality_score <= ScoreScale

C12_ExtractorReturnsRecord ==
    (pc \in {"rerank", "done"} /\ user_text # <<>>) => IsPreferenceRecord(preferences)

\* C13: a request that waits for a collaborator (the preference extraction or the
\* reranking) eventually completes, also when the collaborator never answers.
C13_RequestCompletes == (pc \in {"extract", "rerank"}) ~> (pc = "done")

C15_IndexBuiltOnce == builds = 1

\* C16: a save of one of the four operations leaves the user's file as the
\* operation, run alone, makes it from what the file held just before the save:
\* what another caller saved between this operation's load and its save is kept.
C16_NoLostUpdate ==
    \A w \in Workers :
        (ops[w].pc = "returned" /\ ops[w].saved) =>
            ops[w].written = run_alone(ops[w].op, ops[w].replaced)

\* C17: for every user, every window of 24 hours holds at most 3 calls of
\* validate_and_submit that got past the frequency check.
C17_AtMostThreePerWindow ==
    \A u \in Users : \A i \in 1..Len(passed[u]) :
        Cardinality({j \in 1..Len(passed[u]) :
                        /\ passed[u][i] - SUBMISSION_WINDOW_HOURS < passed[u][j]
                        /\ passed[u][j] <= passed[u][i]}) <= MAX_SUBMISSIONS_PER_DAY

\* C18: a request whose preference record has a non-null year, 0 included, takes
\* the year fast path and never the retrieval path.
C18_YearPathWheneverYearGiven ==
    (path \in {"year", "retrieval"} /\ preferences.year # None) => path = "year"

\* C19: the pool of the retriever holds min(20, corpus size) catalog positions, no
\* position outside the pool is more similar to the query than one inside, the
\* pool is in descending similarity, and of two items of equal similarity the one
\* of the lower catalog position comes first (and is the one inside the pool).
C19_RetrieverOrder ==
    (pc = "done" /\ path = "retrieval") =>
        LET sims == cosine_similarity(doc_matrix, user_text)
            before(a, b) == sims[a] > sims[b] \/ (sims[a] = sims[b] /\ a < b)
            pool == {top_idx[i] : i \in 1..Len(top_idx)}
        IN  /\ Len(top_idx) = Min(CandidatePool, Len(movies))
            /\ \A i, j \in 1..Len(top_idx) : i < j => before(top_idx[i], top_idx[j])
            /\ \A a \in pool, b \in (1..Len(movies)) \ pool : before(a, b)

\* C20: for top_k > 0 the year fast path yields the min(2 * top_k, eligible) best
\* items of the requested year with at least 10 ratings, in descending quality
\* score, items of equal score in catalog order (the earlier one also being the one
\* that is kept), and recommend_by_text returns the first top_k of them.
C20_YearPathOrder ==
    (Returned /\ path = "year" /\ top_k > 0) =>
        LET rated == {i \in 1..Len(movies) :
                         /\ movies[i].year = preferences.year
                         /\ has_enough_ratings(movies[i])}
            chosen == {RowOf(candidates[j]) : j \in 1..Len(candidates)}
            before(a, b) ==
                \/ year_quality_score(movies[a]) > year_quality_score(movies[b])
                \/ /\ year_quality_score(movies[a]) = year_quality_score(movies[b])
                   /\ a < b
        IN  /\ Len(candidates) = Min(2 * top_k, Cardinality(rated))
            /\ chosen \subseteq rated
            /\ \A i, j \in 1..Len(candidates) :
                   i < j => before(RowOf(candidates[i]), RowOf(candidates[j]))
            /\ \A a \in chosen, b \in rated \ chosen : before(a, b)
            /\ result = PySlice(candidates, top_k)

\* C21: the enhanced query is the text, then the include-genres twice, the
\* keywords once, the mood once and the include-countries twice, each only if
\* present and each word after a single space; with none of them it is the text.
C21_EnhancedQuery ==
    pc = "done" =>
        LET spaced(list) ==
                LET F[i \in 0..Len(list)] ==
                        IF i = 0 THEN <<>> ELSE F[i - 1] \o <<" ">> \o list[i]
                IN  F[Len(list)]
            expected ==
                user_text
                \o spaced(preferences.genres) \o spaced(preferences.genres)
                \o spaced(preferences.keywords)
                \o (IF preferences.mood # <<>> THEN <<" ">> \o preferences.mood ELSE <<>>)
                \o spaced(preferences.countries) \o spaced(preferences.countries)
        IN  /\ enhanced_query = expected
            /\ (/\ preferences.genres = <<>>
                /\ preferences.keywords = <<>>
                /\ preferences.mood = <<>>
                /\ preferences.countries = <<>>) => enhanced_query = user_text

\* a text enhanced with two genres, keywords, a mood and two countries
C21_Witness ==
    /\ pc = "done"
    /\ user_text # <<>>
    /\ Len(preferences.genres) = 2
    /\ preferences.keywords # <<>>
    /\ preferences.mood # <<>>
    /\ Len(preferences.countries) = 2
    /\ Len(enhanced_query) > Len(user_text)

\* C22: on the retrieval path the head the reranker returns holds only items of
\* the first 10 candidates, and the result is that head followed by the candidates
\* from position 10 on, as they were and in their order, cut to top_k.
C22_TailAppendedUnchanged ==
    (Returned /\ path = "retrieval") =>
        LET tail == PyTail(candidates, RerankSlice)
        IN  /\ \A j \in 1..Len(reranked_head) :
                   \E i \in 1..Min(RerankSlice, Len(candidates)) :
                       candidates[i].movieId = reranked_head[j].movieId
            /\ Len(result) = Min(Max(top_k, 0), Len(reranked_head) + Len(tail))
            /\ \A j \in 1..Len(result) :
                   result[j] = IF j <= Len(reranked_head) THEN reranked_head[j]
                               ELSE tail[j - Len(reranked_head)]

\* a reranked head shorter than top_k, so that the result shows candidates from
\* position 10 on
C22_Witness ==
    /\ Returned
    /\ rerank = "accepted"
    /\ Len(candidates) > RerankSlice + 1
    /\ reranked_head # <<>>
    /\ Len(result) >= Len(reranked_head) + 2

C24_ExclusionFilter ==
    (path = "retrieval" /\ pc \in {"rerank", "done"}) =>
        LET excluded == preferences.exclude_genres
            token(i) == lower(genre_mapping_get(excluded[i]))
            field(c) == lower(c.genres)
            dropped(c) ==
                \E i \in 1..Len(excluded) :
                    \/ contains(token(i), field(c))
                    \/ contains(remove_char(remove_char(field(c), " "), "|"), token(i))
            positions == [i \in 1..Len(movies) |-> i]
        IN  /\ \A idx \in {positions, Reverse(positions)} :
                   LET pool == retrieve(movies, idx)
                       kept == filter_excluded_genres(pool, preferences)
                   IN  /\ kept = SelectSeq(pool, LAMBDA c : ~dropped(c))
                       /\ excluded = <<>> => kept = pool
            /\ eligible = Cardinality({i \in 1..Len(movies) : ~dropped(movies[i])})
            /\ \A j \in 1..Len(candidates) : ~dropped(candidates[j])

\* a request with two excluded genres whose filter drops some of the pool and
\* keeps some
C24_Witness ==
    /\ path = "retrieval"
    /\ pc = "done"
    /\ Len(preferences.exclude_genres) = 2
    /\ 0 < eligible
    /\ eligible < Len(movies)
    /\ Len(candidates) = eligible

\* C25: a request for a year of which the catalog has items, none of them with
\* 10 ratings or more, returns the empty list.
C25_YearWithoutRatedItems ==
    (/\ Ended
     /\ path = "year"
     /\ \E i \in 1..Len(movies) : movies[i].year = preferences.year
     /\ \A i \in 1..Len(movies) :
            movies[i].year = preferences.year => ~has_enough_ratings(movies[i])) =>
        outcome = "returned" /\ result = <<>>

\* C26: a request on the retrieval path whose exclude list removes every candidate
\* of the pool returns the empty list.
C26_EverythingExcluded ==
    (Ended /\ path = "retrieval" /\ eligible = 0) =>
        outcome = "returned" /\ result = <<>>

\* C27: with a non-empty exclude list, a catalog item without any genre that was
\* retrieved is among the candidates the request goes on with.
C27_NoGenreIsKept ==
    (/\ path = "retrieval"
     /\ pc \in {"rerank", "done"}
     /\ preferences.exclude_genres # <<>>) =>
        \A i \in 1..Len(movies) :
            movies[i].genres = <<>> =>
                \E j \in 1..Len(candidates) : candidates[j].movieId = movies[i].movieId

\* C28: handle_text_message processes a message at most once: no request
\* handler runs twice for one message, also when the send of the response
\* fails.
C28_HandledAtMostOnce ==
    handling.pc # "idle" =>
        \A i, j \in 1..Len(handling.ran) :
            i # j => handling.ran[i] # handling.ran[j]

\* C30: a recommendation message for which the engine has candidates is
\* answered with the recommendations, not with the error text.
C30_AnswersWithRecommendations ==
    (handling.pc = "done" /\ handling.kind = "recommend" /\ handling.found)
        => handling.response = "recommendations"

\* C29: the status of a submission becomes approved or finally_rejected only
\* from 'appeal': an entry that arrives in the approved file, and an entry of the
\* appeal file that becomes finally_rejected, had the status 'appeal' in the
\* appeal file before; an approved submission is no longer in the appeal file.
C29_ReviewOnlyOfAppeals ==
    [][ /\ \A i \in 1..Len(approved_file') :
               i > Len(approved_file) =>
                   /\ \E j \in 1..Len(appeal_file) :
                          /\ appeal_file[j].submission_id =
                                 approved_file'[i].submission_id
                          /\ appeal_file[j].status = "appeal"
                   /\ \A j \in 1..Len(appeal_file') :
                          appeal_file'[j].submission_id #
                              approved_file'[i].submission_id
        /\ \A j \in 1..Len(appeal_file') :
               (/\ j <= Len(appeal_file)
                /\ appeal_file'[j].status = "finally_rejected"
                /\ appeal_file[j].status # "finally_rejected")
                   => appeal_file[j].status = "appeal" ]_vars

====
